---- MODULE Spec2Model ----
(***************************************************************************)
(* Model of kalman.py: the constant-velocity Kalman filter                 *)
(* (KalmanTracker), the per-object Track and the multi-object BoxTracker   *)
(* with its greedy association, track creation and timeout eviction.       *)
(*                                                                         *)
(* Numbers are exact rationals <<n, d>> with d > 0 in lowest terms; the    *)
(* pair <<0, 0>> stands for numpy's nan (0/0).  Floating-point rounding is *)
(* not modelled.                                                           *)
(***************************************************************************)
EXTENDS Integers, Sequences, FiniteSets, TLC

\* ---------------------------------------------------------------- bounds
MaxTime == 4      \* timestamps passed by the caller range over 0..MaxTime
MaxCalls == 3     \* number of public calls made on one instance
MaxLength == 2    \* largest history capacity a tracker is configured with
MaxCoord == 2     \* box coordinates given to box_overlap range over 0..MaxCoord
MaxVal == 1       \* entries of x and P given to predict range over -MaxVal..MaxVal
MaxDt == 2        \* time steps given to predict range over -MaxDt..MaxDt

\* ------------------------------------------------------ exact arithmetic
\* With(e, F) is F(e) with e evaluated once (the value is bound, then used)
With(e, F(_)) == CHOOSE r \in {F(v) : v \in {e}} : TRUE

Abs(n) == IF n < 0 THEN -n ELSE n

RECURSIVE GCD(_, _)
GCD(a, b) == IF b = 0 THEN a ELSE GCD(b, a % b)

I(n) == <<n, 1>>
NaN == <<0, 0>>
IsNaN(a) == a[2] = 0

Rat(n, d) ==
    LET s == IF d < 0 THEN -1 ELSE 1
        g == GCD(Abs(n), Abs(d))
    IN  <<(s * n) \div g, (s * d) \div g>>

\* (adding 0 and multiplying by 0 or 1 are answered without reducing; common
\* factors are cancelled before multiplying, which keeps the products small)
RAdd(a, b) ==
    IF a = I(0) THEN b ELSE IF b = I(0) THEN a
    ELSE With(GCD(a[2], b[2]), LAMBDA g :
            Rat(a[1] * (b[2] \div g) + b[1] * (a[2] \div g), (a[2] \div g) * b[2]))
RNeg(a) == <<-a[1], a[2]>>
RSub(a, b) == RAdd(a, RNeg(b))
RMul(a, b) ==
    IF a = I(0) \/ b = I(0) THEN I(0)
    ELSE IF a = I(1) THEN b ELSE IF b = I(1) THEN a
    ELSE With(GCD(Abs(a[1]), b[2]), LAMBDA g1 :
         With(GCD(Abs(b[1]), a[2]), LAMBDA g2 :
            <<(a[1] \div g1) * (b[1] \div g2), (a[2] \div g2) * (b[2] \div g1)>>))
\* numpy float division raises nothing: 0/0 is nan (a zero divisor only ever
\* meets a zero dividend here, see box_overlap)
RDiv(a, b) ==
    IF b[1] = 0 THEN NaN
    ELSE RMul(a, IF b[1] < 0 THEN <<-b[2], -b[1]>> ELSE <<b[2], b[1]>>)
\* every comparison with nan is False
RLt(a, b) ==
    /\ ~IsNaN(a)
    /\ ~IsNaN(b)
    /\ With(GCD(a[2], b[2]), LAMBDA g : a[1] * (b[2] \div g) < b[1] * (a[2] \div g))
RMaximum(a, b) == IF RLt(a, b) THEN b ELSE a
RMinimum(a, b) == IF RLt(b, a) THEN b ELSE a

\* 2x2 matrix product and matrix-vector product over the rationals
MatMul(A, B) ==
    [i \in 1..2 |-> [j \in 1..2 |->
        RAdd(RMul(A[i][1], B[1][j]), RMul(A[i][2], B[2][j]))]]
MatVec(A, v) ==
    [i \in 1..2 |-> RAdd(RMul(A[i][1], v[1]), RMul(A[i][2], v[2]))]
Transpose(A) == [i \in 1..2 |-> [j \in 1..2 |-> A[j][i]]]

\* ---------------------------------------------------------- KalmanTracker
(***************************************************************************)
(* R and P0 are diagonal and F, H are built from the blocks I and Z, so    *)
(* every ndim x ndim block of P stays diagonal: coordinate d of the state  *)
(* evolves on its own through the 2x2 matrices below.  x keeps the code's  *)
(* layout (ndim positions, then ndim velocities); P[d] is the 2x2          *)
(* covariance of (position d, velocity d).  A KalmanTracker is the record  *)
(* [ndim, R, Pv] with R = diag(sigma_z^2) and Pv = diag(sigma_v^2) given   *)
(* by their diagonals.  Coordinates whose blocks are equal share one       *)
(* evaluation of the matrix products (the tables keyed by block below).    *)
(***************************************************************************)
KalmanTracker(ndim, R, Pv) == [ndim |-> ndim, R |-> R, Pv |-> Pv]

\* kalman_args: sigma_z = 0.05, sigma_v = 0.5 in each of 4 dimensions
kalman_args ==
    KalmanTracker(4, [d \in 1..4 |-> Rat(1, 400)], [d \in 1..4 |-> Rat(1, 4)])

\* a measurement is a 1-d vector of numbers; BadZ is a 2x2 array
BadZ == << <<I(0), I(0)>>, <<I(0), I(0)>> >>
Ndim(z) == IF z = BadZ THEN 2 ELSE 1

\* np.hstack([z, vel]) raises ValueError unless z is 1-d like vel
StartRaises(z) == Ndim(z) # 1

start(kalman, z) ==
    [x |-> z \o [d \in 1..kalman.ndim |-> I(0)],
     P |-> [d \in 1..kalman.ndim |->
              << <<kalman.R[d], I(0)>>, <<I(0), kalman.Pv[d]>> >>]]

FmatSquare(dt) == << <<I(1), I(dt * dt)>>, <<I(0), I(1)>> >>

\* the 2x2 block [[1, dt], [0, 1]] of F
Fmat(dt) == << <<I(1), I(dt)>>, <<I(0), I(1)>> >>

\* x1 = F @ x and P1 = F @ P @ F.T, coordinate by coordinate
predict(kalman, x, P, dt) ==
    LET n == kalman.ndim
    IN  With(Fmat(dt), LAMBDA F :
        With([d \in 1..n |-> MatVec(F, <<x[d], x[n + d]>>)], LAMBDA xd :
        With([b \in {P[d] : d \in 1..n} |->
                With(MatMul(F, b), LAMBDA FP : MatMul(FP, Transpose(F)))],
             LAMBDA FPFt :
            [x |-> [i \in 1..(2 * n) |->
                      IF i <= n THEN xd[i][1] ELSE xd[i - n][2]],
             P |-> [d \in 1..n |-> FPFt[P[d]]]])))

\* A = H P1 H^T + R, a diagonal matrix given by its diagonal
InnovationCov(kalman, P1) ==
    [d \in 1..kalman.ndim |-> RAdd(P1[d][1][1], kalman.R[d])]

\* np.linalg.solve raises LinAlgError when A is singular
SolveRaises(kalman, P1) ==
    \E d \in 1..kalman.ndim : RAdd(P1[d][1][1], kalman.R[d]) = I(0)

\* K @ z raises ValueError unless z is a vector of ndim numbers
GainRaises(kalman, z) == Ndim(z) # 1 \/ Len(z) # kalman.ndim

\* K = solve(A, B.T).T with B = P1 H^T, and G = I - K H, for one coordinate
\* with covariance block p and measurement noise r
Gain(p, r) ==
    With(RAdd(p[1][1], r), LAMBDA a :
    With(<<RDiv(p[1][1], a), RDiv(p[2][1], a)>>, LAMBDA K :
        [K |-> K,
         G |-> << <<RSub(I(1), K[1]), I(0)>>, <<RSub(I(0), K[2]), I(1)>> >>]))

\* KalmanTracker.update once the solve has succeeded, given (x1, P1) = p1:
\* x2 = G x1 + K z and P2 = G P1
KalmanUpdate(kalman, p1, z) ==
    LET n == kalman.ndim
    IN  With([b \in {<<p1.P[d], kalman.R[d]>> : d \in 1..n} |->
                With(Gain(b[1], b[2]), LAMBDA g :
                    [K |-> g.K, G |-> g.G, P2 |-> MatMul(g.G, b[1])])],
             LAMBDA tbl :
        With([d \in 1..n |->
                With(tbl[<<p1.P[d], kalman.R[d]>>], LAMBDA g :
                With(MatVec(g.G, <<p1.x[d], p1.x[n + d]>>), LAMBDA gx :
                    <<RAdd(gx[1], RMul(g.K[1], z[d])),
                      RAdd(gx[2], RMul(g.K[2], z[d]))>>))],
             LAMBDA x2 :
            [x |-> [i \in 1..(2 * n) |->
                      IF i <= n THEN x2[i][1] ELSE x2[i - n][2]],
             P |-> [d \in 1..n |-> tbl[<<p1.P[d], kalman.R[d]>>].P2]]))

\* ----------------------------------------------------------- box overlap
box_area(l, t, r, b) ==
    With(RMaximum(I(0), RSub(r, l)), LAMBDA w :
    With(RMaximum(I(0), RSub(b, t)), LAMBDA h : RMul(w, h)))

\* unpacking "l1, t1, r1, b1 = box1" raises ValueError unless 4 items
OverlapRaises(box1, box2) == Len(box1) # 4 \/ Len(box2) # 4

box_similarity(box1, box2) ==
    LET lx == RMaximum(box1[1], box2[1])
        tx == RMaximum(box1[2], box2[2])
        rx == RMinimum(box1[3], box2[3])
        bx == RMinimum(box1[4], box2[4])
    IN  RDiv(box_area(lx, tx, rx, bx),
             RMaximum(box_area(box1[1], box1[2], box1[3], box1[4]),
                      box_area(box2[1], box2[2], box2[3], box2[4])))

box_overlap(box1, box2) ==
    LET lx == RMaximum(box1[1], box2[1])
        tx == RMaximum(box1[2], box2[2])
        rx == RMinimum(box1[3], box2[3])
        bx == RMinimum(box1[4], box2[4])
    IN  With(box_area(box1[1], box1[2], box1[3], box1[4]), LAMBDA a1 :
        With(box_area(box2[1], box2[2], box2[3], box2[4]), LAMBDA a2 :
        With(box_area(lx, tx, rx, bx), LAMBDA ax :
        With(RDiv(ax, RMaximum(a1, a2)), LAMBDA sim :
            IF IsNaN(sim) THEN NaN ELSE RSub(I(1), sim)))))

\* ------------------------------------------------------------------ Track
\* collections.deque with maxlen: appending to a full deque drops the oldest
DequeAppendUnbounded(hist, item, maxlen) == Append(hist, item)

DequeAppendLeft(hist, item, maxlen) ==
    With(<<item>> \o hist, LAMBDA a :
        IF Len(a) > maxlen THEN SubSeq(a, 1, maxlen) ELSE a)

DequeAppend(hist, item, maxlen) ==
    With(Append(hist, item), LAMBDA a :
        IF Len(a) > maxlen THEN SubSeq(a, Len(a) - maxlen + 1, Len(a)) ELSE a)

\* Track.__init__ (kalman.start has succeeded)
Track(kalman, maxlen, l, t, z) ==
    With(start(kalman, z), LAMBDA s :
        [l |-> l, t |-> t, x |-> s.x, P |-> s.P,
         hist |-> DequeAppend(<<>>, <<t, z, s.x, s.P>>, maxlen)])

TrackPredict(kalman, trk, t) == predict(kalman, trk.x, trk.P, t - trk.t)

TrackUpdateKeepsT(kalman, maxlen, trk, t, z) ==
    With(predict(kalman, trk.x, trk.P, t - trk.t), LAMBDA p1 :
        IF SolveRaises(kalman, p1.P)
        THEN [trk |-> trk, err |-> "LinAlgError"]
        ELSE IF GainRaises(kalman, z)
        THEN [trk |-> trk, err |-> "ValueError"]
        ELSE With(KalmanUpdate(kalman, p1, z), LAMBDA u :
                [trk |-> [trk EXCEPT !.x = u.x, !.P = u.P,
                     !.hist = DequeAppend(trk.hist, <<t, z, u.x, u.P>>, maxlen)],
                 err |-> "none"]))

\* Track.update: [trk, err], the track as the call leaves it and the error
\* raised ("none" when it returns).  self.t is assigned before kalman.update
\* runs, so it is already overwritten when that call raises.
TrackUpdate(kalman, maxlen, trk, t, z) ==
    With(predict(kalman, trk.x, trk.P, t - trk.t), LAMBDA p1 :
        IF SolveRaises(kalman, p1.P)
        THEN [trk |-> [trk EXCEPT !.t = t], err |-> "LinAlgError"]
        ELSE IF GainRaises(kalman, z)
        THEN [trk |-> [trk EXCEPT !.t = t], err |-> "ValueError"]
        ELSE With(KalmanUpdate(kalman, p1, z), LAMBDA u :
                [trk |-> [trk EXCEPT !.t = t, !.x = u.x, !.P = u.P,
                     !.hist = DequeAppend(trk.hist, <<t, z, u.x, u.P>>, maxlen)],
                 err |-> "none"]))

\* ------------------------------------------------------------- BoxTracker
\* keys of a dict in iteration order: keys are inserted in increasing order
\* (add uses nextid, reset empties the dict), so that is ascending order
RECURSIVE Keys(_)
Keys(S) ==
    IF S = {} THEN <<>>
    ELSE LET m == CHOOSE a \in S : \A b \in S : a <= b
         IN  <<m>> \o Keys(S \ {m})

\* detections are records [l, c]; detection indices are 0-based as in the code
Box(boxes, k) == boxes[k + 1]

\* the (k1, i2) pairs in the order of the two nested loops
Pairs(boxes, trks) ==
    With(Keys(DOMAIN trks), LAMBDA ids :
        [p \in 1..(Len(boxes) * Len(ids)) |->
            <<(p - 1) \div Len(ids), ids[((p - 1) % Len(ids)) + 1]>>])

\* locs: the predicted state of every track
Locs(kalman, trks, t) == [i \in DOMAIN trks |-> TrackPredict(kalman, trks[i], t)]

AnyLabel(boxes, trks, k, i) == TRUE

\* "l1 == l2" for detection k and track i
SameLabel(boxes, trks, k, i) == Box(boxes, k).l = trks[i].l

\* box_overlap raises for some same-label pair
ErrsRaises(trks, locs, boxes) ==
    \E k \in 0..(Len(boxes) - 1), i \in DOMAIN trks :
        /\ SameLabel(boxes, trks, k, i)
        /\ OverlapRaises(Box(boxes, k).c, SubSeq(locs[i].x, 1, 4))

AtMostCutoff(e, cut) == RLt(e, cut) \/ (~IsNaN(e) /\ e = cut)

\* "e < self.cutoff"
BelowCutoff(e, cut) == RLt(e, cut)

\* all same-label pairs with difference below cutoff, as (k1, i2, e)
Errs(cut, trks, locs, boxes) ==
    With(Pairs(boxes, trks), LAMBDA pairs :
    With([p \in DOMAIN pairs |->
            <<pairs[p][1], pairs[p][2],
              IF SameLabel(boxes, trks, pairs[p][1], pairs[p][2])
              THEN box_overlap(Box(boxes, pairs[p][1]).c,
                               SubSeq(locs[pairs[p][2]].x, 1, 4))
              ELSE NaN>>],
         LAMBDA all :
            SelectSeq(all, LAMBDA c :
                SameLabel(boxes, trks, c[1], c[2]) /\ BelowCutoff(c[3], cut))))

\* min(errs, key=itemgetter(2)): the first element of least e
MinErrLast(errs) ==
    errs[CHOOSE a \in 1..Len(errs) :
            /\ \A b \in 1..Len(errs) : ~RLt(errs[b][3], errs[a][3])
            /\ \A b \in (a + 1)..Len(errs) : RLt(errs[a][3], errs[b][3])]

MinErr(errs) ==
    errs[CHOOSE a \in 1..Len(errs) :
            /\ \A b \in 1..Len(errs) : ~RLt(errs[b][3], errs[a][3])
            /\ \A b \in 1..(a - 1) : RLt(errs[a][3], errs[b][3])]

UnsharedEither(errs, m) ==
    SelectSeq(errs, LAMBDA c : (c[1] # m[1] \/ c[2] # m[2]) /\ c # m)

\* the candidates left once m is taken: those sharing neither k nor j with it
Unshared(errs, m) == SelectSeq(errs, LAMBDA c : c[1] # m[1] /\ c[2] # m[2])

\* the loop "for _ in range(len(errs))" with n iterations left
RECURSIVE Unravel(_, _)
Unravel(errs, n) ==
    IF n = 0 THEN <<>>
    ELSE With(MinErr(errs), LAMBDA m :
         With(Unshared(errs, m), LAMBDA rest :
            <<m>> \o (IF Len(rest) = 0 THEN <<>> ELSE Unravel(rest, n - 1))))

FinalOnce(errs) == IF errs = <<>> THEN <<>> ELSE Unravel(errs, 1)

Final(errs) == Unravel(errs, Len(errs))

\* mapper after the matches: detection index -> track id
Mapper(final) ==
    [k \in {final[p][1] : p \in DOMAIN final} |->
        (CHOOSE m \in {final[p] : p \in DOMAIN final} : m[1] = k)[2]]

\* "update positive matches": final[p..] applied in order to st = [tracks, err]
RECURSIVE CommitMatches(_, _, _, _, _, _, _)
CommitMatchesKeepsPredictions(kalman, maxlen, st, t, boxes, final, p) ==
    IF p > Len(final) \/ st.err # "none"
    THEN [st EXCEPT !.tracks =
            [i \in DOMAIN st.tracks |->
                With(TrackPredict(kalman, st.tracks[i], t), LAMBDA p1 :
                    [st.tracks[i] EXCEPT !.x = p1.x, !.P = p1.P])]]
    ELSE With(TrackUpdate(kalman, maxlen, st.tracks[final[p][2]], t,
                          Box(boxes, final[p][1]).c), LAMBDA u :
         With([tracks |-> [st.tracks EXCEPT ![final[p][2]] = u.trk],
               err |-> u.err], LAMBDA st1 :
            CommitMatches(kalman, maxlen, st1, t, boxes, final, p + 1)))

CommitMatches(kalman, maxlen, st, t, boxes, final, p) ==
    IF p > Len(final) \/ st.err # "none" THEN st
    ELSE With(TrackUpdate(kalman, maxlen, st.tracks[final[p][2]], t,
                          Box(boxes, final[p][1]).c), LAMBDA u :
         With([tracks |-> [st.tracks EXCEPT ![final[p][2]] = u.trk],
               err |-> u.err], LAMBDA st1 :
            CommitMatches(kalman, maxlen, st1, t, boxes, final, p + 1)))

AddKeepsNextid(kalman, maxlen, st, l, t, z) ==
    IF StartRaises(z)
    THEN [tracks |-> st.tracks, nextid |-> st.nextid, err |-> "ValueError"]
    ELSE [tracks |-> [i \in DOMAIN st.tracks \cup {st.nextid} |->
                        IF i = st.nextid THEN Track(kalman, maxlen, l, t, z)
                        ELSE st.tracks[i]],
          nextid |-> st.nextid, err |-> "none"]

AddAfterIncrement(kalman, maxlen, st, l, t, z) ==
    IF StartRaises(z)
    THEN [tracks |-> st.tracks, nextid |-> st.nextid + 1, err |-> "ValueError"]
    ELSE [tracks |-> [i \in DOMAIN st.tracks \cup {st.nextid + 1} |->
                        IF i = st.nextid + 1 THEN Track(kalman, maxlen, l, t, z)
                        ELSE st.tracks[i]],
          nextid |-> st.nextid + 1, err |-> "none"]

\* BoxTracker.add on st = [tracks, nextid, err]: nextid is advanced before
\* Track(...) is constructed, so it stays advanced when the constructor raises
Add(kalman, maxlen, st, l, t, z) ==
    IF StartRaises(z)
    THEN [tracks |-> st.tracks, nextid |-> st.nextid + 1, err |-> "ValueError"]
    ELSE [tracks |-> [i \in DOMAIN st.tracks \cup {st.nextid} |->
                        IF i = st.nextid THEN Track(kalman, maxlen, l, t, z)
                        ELSE st.tracks[i]],
          nextid |-> st.nextid + 1, err |-> "none"]

\* "create new tracks for non-matches": detections k.. in order, on
\* st = [tracks, nextid, err, match, new]; mapper maps matched k to track id,
\* new lists the ids add has returned
RECURSIVE CreateNew(_, _, _, _, _, _, _)
CreateNewUnaligned(kalman, maxlen, st, t, boxes, mapper, k) ==
    IF k >= Len(boxes) \/ st.err # "none" THEN st
    ELSE IF k \in DOMAIN mapper
    THEN CreateNew(kalman, maxlen, st, t, boxes, mapper, k + 1)
    ELSE With(Add(kalman, maxlen, st, Box(boxes, k).l, t, Box(boxes, k).c),
              LAMBDA a :
         With([tracks |-> a.tracks, nextid |-> a.nextid, err |-> a.err,
               match |-> IF a.err = "none" THEN Append(st.match, st.nextid)
                         ELSE st.match,
               new |-> IF a.err = "none" THEN Append(st.new, st.nextid)
                       ELSE st.new], LAMBDA st1 :
            CreateNew(kalman, maxlen, st1, t, boxes, mapper, k + 1)))

CreateNew(kalman, maxlen, st, t, boxes, mapper, k) ==
    IF k >= Len(boxes) \/ st.err # "none" THEN st
    ELSE IF k \in DOMAIN mapper
    THEN With([st EXCEPT !.match = Append(@, mapper[k])], LAMBDA st1 :
            CreateNew(kalman, maxlen, st1, t, boxes, mapper, k + 1))
    ELSE With(Add(kalman, maxlen, st, Box(boxes, k).l, t, Box(boxes, k).c),
              LAMBDA a :
         With([tracks |-> a.tracks, nextid |-> a.nextid, err |-> a.err,
               match |-> IF a.err = "none" THEN Append(st.match, st.nextid)
                         ELSE st.match,
               new |-> IF a.err = "none" THEN Append(st.new, st.nextid)
                       ELSE st.new], LAMBDA st1 :
            CreateNew(kalman, maxlen, st1, t, boxes, mapper, k + 1)))

IdoneInclusive(trks, tmo, t) == {i \in DOMAIN trks : t >= trks[i].t + tmo}

\* "clear out old tracks"
Idone(trks, tmo, t) == {i \in DOMAIN trks : t > trks[i].t + tmo}

Restrict(f, S) == [i \in S |-> f[i]]

PopDefault(trks, i) ==
    IF i \in DOMAIN trks
    THEN [tracks |-> Restrict(trks, DOMAIN trks \ {i}), err |-> "none",
          popped |-> <<trks[i]>>]
    ELSE [tracks |-> trks, err |-> "none", popped |-> <<>>]

\* BoxTracker.pop, i.e. dict.pop(i): KeyError when i is not a key
PopResult(trks, i) ==
    IF i \in DOMAIN trks
    THEN [tracks |-> Restrict(trks, DOMAIN trks \ {i}), err |-> "none",
          popped |-> <<trks[i]>>]
    ELSE [tracks |-> trks, err |-> "KeyError", popped |-> <<>>]

\* BoxTracker.update as a whole: the tracker and the result it leaves, with
\* the locals errs (the candidate pairs) and final (the committed matches)
UpdateResult(kalman, maxlen, cut, tmo, trks, nid, t, boxes) ==
    With(Locs(kalman, trks, t), LAMBDA locs :
    IF ErrsRaises(trks, locs, boxes)
    THEN [tracks |-> trks, nextid |-> nid, err |-> "ValueError",
          match |-> <<>>, done |-> <<>>, errs |-> <<>>, final |-> <<>>,
          new |-> <<>>]
    ELSE
    With(Errs(cut, trks, locs, boxes), LAMBDA errs :
    With(Final(errs), LAMBDA final :
    With(CommitMatches(kalman, maxlen, [tracks |-> trks, err |-> "none"],
                       t, boxes, final, 1), LAMBDA s1 :
    With(CreateNew(kalman, maxlen,
                   [tracks |-> s1.tracks, nextid |-> nid, err |-> s1.err,
                    match |-> <<>>, new |-> <<>>],
                   t, boxes, Mapper(final), 0), LAMBDA s2 :
    With(Idone(s2.tracks, tmo, t), LAMBDA idone :
        IF s2.err # "none"
        THEN [tracks |-> s2.tracks, nextid |-> s2.nextid, err |-> s2.err,
              match |-> <<>>, done |-> <<>>, errs |-> errs, final |-> final,
              new |-> s2.new]
        ELSE [tracks |-> Restrict(s2.tracks, DOMAIN s2.tracks \ idone),
              nextid |-> s2.nextid, err |-> "none",
              match |-> s2.match, done |-> Restrict(s2.tracks, idone),
              errs |-> errs, final |-> final, new |-> s2.new]))))))

\* ------------------------------------------------------------------ state
VARIABLES
    timeout,    \* BoxTracker.timeout
    cutoff,     \* BoxTracker.cutoff
    length,     \* BoxTracker.length
    nextid,     \* BoxTracker.nextid
    tracks,     \* BoxTracker.tracks: id -> Track
    call,       \* the latest public call: its arguments and what it returned
    issued,     \* every id assigned to a track so far, in order of assignment
    epoch,      \* Len(issued) when reset last ran
    scen,       \* how far the calls so far follow the end-to-end scenario
    calls,      \* number of public calls made so far
    clock,      \* latest timestamp passed to add or update since reset, or -1
    mono,       \* no call since reset passed a timestamp below an earlier one
    solokalman, \* the KalmanTracker of a Track used on its own
    sololen,    \* that Track's history capacity
    solo,       \* that Track
    solocall,   \* the latest call on that Track
    solocalls,  \* number of calls made on that Track
    fin,        \* the arguments of a function applied on its own
    fout,       \* what it returned
    fdone       \* whether it has been applied

bvars == <<timeout, cutoff, length, nextid, tracks, call, issued, epoch, scen,
           calls, clock, mono>>
svars == <<solokalman, sololen, solo, solocall, solocalls>>
pvars == <<fin, fout, fdone>>
vars == <<bvars, svars, pvars>>

\* ----------------------------------------------------------------- inputs
BoxA == <<I(0), I(0), I(10), I(10)>>
BoxB == <<I(1), I(0), I(11), I(10)>>
BoxC == <<I(5), I(0), I(15), I(10)>>
Det(l, c) == [l |-> l, c |-> c]
\* the detections passed to add
Dets == {Det("car", BoxA), Det("dog", BadZ)}
\* the detection lists passed to update
Frames ==
    { <<>>,
      <<Det("car", BoxA)>>,
      <<Det("car", BoxB)>>,
      <<Det("car", BoxC)>>,
      <<Det("car", BoxA), Det("car", BoxB)>>,
      <<Det("dog", BoxA), Det("car", BoxB)>>,
      <<Det("car", BoxB), Det("dog", BadZ)>> }
Times == 0..MaxTime
Timeouts == {2}
Cutoffs == {Rat(1, 5)}
Lengths == 1..MaxLength
\* deque(maxlen=0) is a legal, always empty history
SoloLengths == 0..MaxLength

NoTracks == [i \in {} |-> 0]

Call(op, t, boxes, i, err, match, done, popped, errs, final) ==
    [op |-> op, t |-> t, boxes |-> boxes, i |-> i, err |-> err,
     match |-> match, done |-> done, popped |-> popped,
     errs |-> errs, final |-> final]

NoCall(op) == Call(op, 0, <<>>, 0, "none", <<>>, NoTracks, <<>>, <<>>, <<>>)

\* the end-to-end scenario: update(0, [car A]); update(1, [car B]); update(4, [])
\* on a fresh tracker.  scen counts the steps taken; -1 once the calls differ.
ScenStep(n, t, boxes) ==
    IF n = 0 /\ t = 0 /\ boxes = <<Det("car", BoxA)>> THEN 1
    ELSE IF n = 1 /\ t = 1 /\ boxes = <<Det("car", BoxB)>> THEN 2
    ELSE IF n = 2 /\ t = 4 /\ boxes = <<>> THEN 3
    ELSE -1

\* -------------------------------------------------- BoxTracker operations
\* BoxTracker.__init__: the configuration, then reset()
BoxInit ==
    /\ timeout \in Timeouts
    /\ cutoff \in Cutoffs
    /\ length \in Lengths
    /\ nextid = 0
    /\ tracks = NoTracks
    /\ call = NoCall("init")
    /\ issued = <<>>
    /\ epoch = 0
    /\ scen = 0
    /\ calls = 0
    /\ clock = -1
    /\ mono = TRUE

\* reset leaves the tracker as __init__ does, so the scenario can start again
Reset ==
    /\ calls < MaxCalls
    /\ nextid' = 0
    /\ tracks' = NoTracks
    /\ call' = NoCall("reset")
    /\ epoch' = Len(issued)
    /\ scen' = 0
    /\ calls' = calls + 1
    /\ clock' = -1
    /\ mono' = TRUE
    /\ UNCHANGED <<timeout, cutoff, length, issued, svars, pvars>>

AddCall(l, t, z) ==
    /\ calls < MaxCalls
    /\ \E a \in {Add(kalman_args, length,
                     [tracks |-> tracks, nextid |-> nextid, err |-> "none"],
                     l, t, z)} :
           /\ tracks' = a.tracks
           /\ nextid' = a.nextid
           /\ call' = Call("add", t, <<Det(l, z)>>, 0, a.err,
                           IF a.err = "none" THEN <<nextid>> ELSE <<>>,
                           NoTracks, <<>>, <<>>, <<>>)
           /\ issued' = IF a.err = "none" THEN Append(issued, nextid) ELSE issued
    /\ scen' = -1
    /\ calls' = calls + 1
    /\ clock' = t
    /\ mono' = (mono /\ t >= clock)
    /\ UNCHANGED <<timeout, cutoff, length, epoch, svars, pvars>>

Pop(i) ==
    /\ calls < MaxCalls
    /\ \E r \in {PopResult(tracks, i)} :
           /\ tracks' = r.tracks
           /\ call' = Call("pop", 0, <<>>, i, r.err, <<>>, NoTracks,
                           r.popped, <<>>, <<>>)
    /\ scen' = -1
    /\ calls' = calls + 1
    /\ UNCHANGED <<timeout, cutoff, length, nextid, issued, epoch, clock, mono,
                   svars, pvars>>

UpdateLifetimeIds(t, boxes) ==
    /\ calls < MaxCalls
    /\ \E r \in {UpdateResult(kalman_args, length, cutoff, timeout,
                                tracks, Len(issued), t, boxes)} :
           /\ tracks' = r.tracks
           /\ nextid' = r.nextid
           /\ call' = Call("update", t, boxes, 0, r.err, r.match, r.done, <<>>,
                           r.errs, r.final)
           /\ issued' = issued \o r.new
    /\ scen' = ScenStep(scen, t, boxes)
    /\ calls' = calls + 1
    /\ clock' = t
    /\ mono' = (mono /\ t >= clock)
    /\ UNCHANGED <<timeout, cutoff, length, epoch, svars, pvars>>

Update(t, boxes) ==
    /\ calls < MaxCalls
    /\ \E r \in {UpdateResult(kalman_args, length, cutoff, timeout,
                                tracks, nextid, t, boxes)} :
           /\ tracks' = r.tracks
           /\ nextid' = r.nextid
           /\ call' = Call("update", t, boxes, 0, r.err, r.match, r.done, <<>>,
                           r.errs, r.final)
           /\ issued' = issued \o r.new
    /\ scen' = ScenStep(scen, t, boxes)
    /\ calls' = calls + 1
    /\ clock' = t
    /\ mono' = (mono /\ t >= clock)
    /\ UNCHANGED <<timeout, cutoff, length, epoch, svars, pvars>>

\* --------------------------------------------- a Track used on its own
SoloKalmans ==
    {KalmanTracker(1, <<rz>>, <<rv>>) :
        rz \in {I(0), Rat(1, 400)}, rv \in {I(0), Rat(1, 4)}}
SoloZs == {<<I(0)>>, <<I(3)>>}

SoloCall(op, t, z, err, ret) ==
    [op |-> op, t |-> t, z |-> z, err |-> err, ret |-> ret]

\* no Track is used on its own
SoloNone ==
    /\ solokalman = kalman_args
    /\ sololen = 0
    /\ solo = <<>>
    /\ solocall = <<>>
    /\ solocalls = 0

\* Track(kalman, length, l, t, z)
SoloInit ==
    /\ solokalman \in SoloKalmans
    /\ sololen \in SoloLengths
    /\ \E t \in Times, z \in SoloZs :
          /\ solo = Track(solokalman, sololen, "car", t, z)
          /\ solocall = SoloCall("init", t, z, "none", <<>>)
    /\ solocalls = 0

SoloPredict(t) ==
    /\ solocalls < MaxCalls
    /\ solocall' = SoloCall("predict", t, <<>>, "none",
                            <<TrackPredict(solokalman, solo, t)>>)
    /\ solocalls' = solocalls + 1
    /\ UNCHANGED <<solokalman, sololen, solo, bvars, pvars>>

SoloUpdate(t, z) ==
    /\ solocalls < MaxCalls
    /\ \E u \in {TrackUpdate(solokalman, sololen, solo, t, z)} :
           /\ solo' = u.trk
           /\ solocall' = SoloCall("update", t, z, u.err, <<>>)
    /\ solocalls' = solocalls + 1
    /\ UNCHANGED <<solokalman, sololen, bvars, pvars>>

\* ------------------------------------- functions applied on their own
\* no function is applied on its own
PureNone ==
    /\ fin = <<>>
    /\ fout = <<>>
    /\ fdone = FALSE

\* box_overlap(box1, box2) on any two boxes, degenerate and inverted included
Coords == 0..MaxCoord
OverlapInputs ==
    {[fn |-> "overlap", box1 |-> <<I(l1), I(t1), I(r1), I(b1)>>,
      box2 |-> <<I(l2), I(t2), I(r2), I(b2)>>] :
        l1 \in Coords, t1 \in Coords, r1 \in Coords, b1 \in Coords,
        l2 \in Coords, t2 \in Coords, r2 \in Coords, b2 \in Coords}

\* predict on a 1-dimensional filter: x = (position, velocity), P any 2x2
Vals == (-MaxVal)..MaxVal
Dts == (-MaxDt)..MaxDt
PredictInputs ==
    {[fn |-> "predict", x |-> <<I(x1), I(x2)>>,
      P |-> << << <<I(a), I(b)>>, <<I(c), I(d)>> >> >>, dt1 |-> dt1, dt2 |-> dt2] :
        x1 \in Vals, x2 \in Vals, a \in Vals, b \in Vals, c \in Vals, d \in Vals,
        dt1 \in Dts, dt2 \in Dts}
PredictKalman == KalmanTracker(1, <<I(0)>>, <<I(0)>>)

PureInit ==
    /\ fin \in OverlapInputs \cup PredictInputs
    /\ fout = <<>>
    /\ fdone = FALSE

ApplyOverlap ==
    /\ ~fdone
    /\ fin.fn = "overlap"
    /\ fout' = [cost |-> box_overlap(fin.box1, fin.box2)]
    /\ fdone' = TRUE
    /\ UNCHANGED <<fin, bvars, svars>>

\* predict applied in two steps dt1, dt2, in one step dt1 + dt2, and with dt = 0
ApplyPredict ==
    /\ ~fdone
    /\ fin.fn = "predict"
    /\ \E p1 \in {predict(PredictKalman, fin.x, fin.P, fin.dt1)} :
           fout' = [two |-> predict(PredictKalman, p1.x, p1.P, fin.dt2),
                    one |-> predict(PredictKalman, fin.x, fin.P, fin.dt1 + fin.dt2),
                    zero |-> predict(PredictKalman, fin.x, fin.P, 0)]
    /\ fdone' = TRUE
    /\ UNCHANGED <<fin, bvars, svars>>

\* ---------------------------------------------------------- specifications
Init == BoxInit /\ SoloNone /\ PureNone

Next ==
    \/ Reset
    \/ \E d \in Dets, t \in Times : AddCall(d.l, t, d.c)
    \/ \E i \in 0..nextid : Pop(i)
    \/ \E t \in Times, boxes \in Frames : Update(t, boxes)

Spec == Init /\ [][Next]_vars

\* a Track driven directly, beside a tracker that is left as constructed
BoxIdle ==
    /\ timeout = 2
    /\ cutoff = Rat(1, 5)
    /\ length = 1
    /\ nextid = 0
    /\ tracks = NoTracks
    /\ call = NoCall("init")
    /\ issued = <<>>
    /\ epoch = 0
    /\ scen = 0
    /\ calls = 0
    /\ clock = -1
    /\ mono = TRUE

InitTrack == BoxIdle /\ SoloInit /\ PureNone

NextTrack ==
    \/ \E t \in Times : SoloPredict(t)
    \/ \E t \in Times, z \in SoloZs : SoloUpdate(t, z)

SpecTrack == InitTrack /\ [][NextTrack]_vars

\* a tracker constructed with cutoff = 0.5, a value floating point holds
\* exactly, and history capacity 1
InitCut ==
    /\ timeout = 2
    /\ cutoff = Rat(1, 2)
    /\ length = 1
    /\ nextid = 0
    /\ tracks = NoTracks
    /\ call = NoCall("init")
    /\ issued = <<>>
    /\ epoch = 0
    /\ scen = 0
    /\ calls = 0
    /\ clock = -1
    /\ mono = TRUE
    /\ SoloNone
    /\ PureNone

SpecCut == InitCut /\ [][Next]_vars

\* box_overlap and predict applied on their own, beside an idle tracker
InitPure == BoxIdle /\ SoloNone /\ PureInit

NextPure ==
    \/ ApplyOverlap
    \/ ApplyPredict

SpecPure == InitPure /\ [][NextPure]_vars

\* ------------------------------------------------------------- properties
Min(a, b) == IF a < b THEN a ELSE b

\* the latest call was an update that returned
UpdateReturned == call.op = "update" /\ call.err = "none"
\* this step is an update that returns
UpdateReturns == calls' = calls + 1 /\ call'.op = "update" /\ call'.err = "none"
\* the ids assigned since construction or the latest reset
Current == (epoch + 1)..Len(issued)

C2_IdsAlignedWithDetections ==
    UpdateReturned =>
        /\ Len(call.match) = Len(call.boxes)
        /\ \A p \in DOMAIN call.final :
               call.match[call.final[p][1] + 1] = call.final[p][2]
        /\ \A k \in DOMAIN call.boxes :
               /\ call.match[k] \in DOMAIN tracks
               /\ LET trk == tracks[call.match[k]]
                  IN  /\ trk.l = call.boxes[k].l
                      /\ trk.t = call.t
                      /\ trk.hist # <<>>
                      /\ trk.hist[Len(trk.hist)][1] = call.t
                      /\ trk.hist[Len(trk.hist)][2] = call.boxes[k].c
               /\ (\A p \in DOMAIN call.final : call.final[p][1] # k - 1)
                      => Len(tracks[call.match[k]].hist) = 1

\* a frame whose first detection got a new track and whose second was matched
C2_Witness ==
    /\ UpdateReturned
    /\ Len(call.boxes) = 2
    /\ Len(call.final) = 1
    /\ call.final[1][1] = 1
    /\ call.match[1] > call.match[2]

\* C3: within one update call no detection and no track occurs in two
\* committed matches, and the ids returned are pairwise distinct.
C3_OneToOne ==
    UpdateReturned =>
        /\ \A p, q \in DOMAIN call.final :
               p # q => /\ call.final[p][1] # call.final[q][1]
                        /\ call.final[p][2] # call.final[q][2]
        /\ \A a, b \in DOMAIN call.match :
               a # b => call.match[a] # call.match[b]

\* two detections were candidates for the same track
C3_Witness ==
    /\ UpdateReturned
    /\ \E p, q \in DOMAIN call.errs :
           /\ call.errs[p][2] = call.errs[q][2]
           /\ call.errs[p][1] # call.errs[q][1]

\* C4: when update(t, boxes) returns, done holds exactly the tracks with
\* t > ts + timeout, ts being the timestamp after matching and creation;
\* none of them is left in the registry, no other track has left it, and
\* every track with t <= ts + timeout is still there.
C4_EvictsExactlyTimedOut ==
    [][UpdateReturns =>
        LET all == DOMAIN tracks \cup {call'.match[k] : k \in DOMAIN call'.match}
            after(i) == IF i \in DOMAIN tracks' THEN tracks'[i] ELSE call'.done[i]
        IN  /\ DOMAIN tracks' \cup DOMAIN call'.done = all
            /\ DOMAIN tracks' \cap DOMAIN call'.done = {}
            /\ \A i \in all :
                   /\ i \in DOMAIN call'.done <=> call'.t > after(i).t + timeout
                   /\ i \in DOMAIN tracks' <=> call'.t <= after(i).t + timeout
            /\ \A i \in DOMAIN tracks \ {call'.final[p][2] : p \in DOMAIN call'.final} :
                   after(i) = tracks[i]
    ]_vars

\* one track was evicted while another, exactly timeout old, was kept
C4_Witness ==
    /\ UpdateReturned
    /\ DOMAIN call.done # {}
    /\ \E i \in DOMAIN tracks : call.t = tracks[i].t + timeout

\* C5: every committed match pairs a detection and a track of equal labels,
\* and a detection whose label no live track carries gets an id that was not
\* in the registry before the call, whatever its box overlaps.
C5_MatchesShareLabel ==
    [][UpdateReturns =>
        /\ \A p \in DOMAIN call'.final :
               /\ call'.final[p][2] \in DOMAIN tracks
               /\ tracks[call'.final[p][2]].l = Box(call'.boxes, call'.final[p][1]).l
        /\ \A k \in DOMAIN call'.boxes :
               /\ call'.match[k] \in DOMAIN tracks
                      => tracks[call'.match[k]].l = call'.boxes[k].l
               /\ (\A i \in DOMAIN tracks : tracks[i].l # call'.boxes[k].l)
                      => /\ call'.match[k] \notin DOMAIN tracks
                         /\ call'.match[k] >= nextid
    ]_vars

\* a dog detected exactly where a car track was predicted got its own track
C5_Witness ==
    /\ UpdateReturned
    /\ length = 2
    /\ call.boxes = <<Det("dog", BoxA), Det("car", BoxB)>>
    /\ Len(call.final) = 1
    /\ LET dog == tracks[call.match[1]]
           car == tracks[call.match[2]]
       IN  /\ dog.l = "dog" /\ Len(dog.hist) = 1
           /\ car.l = "car" /\ Len(car.hist) = 2
           /\ car.hist[1][2] = BoxA
           /\ car.hist[1][3] = start(kalman_args, BoxA).x

\* this step is a Track.update on the Track used on its own
SoloUpdates == solocalls' = solocalls + 1 /\ solocall'.op = "update"
\* the last n items of a sequence
LastN(q, n) == SubSeq(q, Len(q) - Min(Len(q), n) + 1, Len(q))

\* C6 as stated: a track's history holds one sample at creation.
C6_OneSampleAtCreation ==
    solocall.op = "init" => Len(solo.hist) = 1

\* C6 amended: a track's history never exceeds the configured capacity; it
\* holds the creation sample when the capacity is at least 1 and nothing
\* when the capacity is 0; a Track.update that returns appends one sample
\* (t, z, x, P) and keeps the most recent capacity-many samples in insertion
\* order, dropping the oldest first; one that raises leaves it unchanged.
C6_HistoryBoundedFifo ==
    /\ [](/\ Len(solo.hist) <= sololen
          /\ solocall.op = "init" =>
                 solo.hist = LastN(<<<<solo.t, solocall.z, solo.x, solo.P>>>>,
                                   sololen))
    /\ [][SoloUpdates =>
            IF solocall'.err = "none"
            THEN solo'.hist =
                     LastN(Append(solo.hist,
                                  <<solocall'.t, solocall'.z, solo'.x, solo'.P>>),
                           sololen)
            ELSE solo'.hist = solo.hist
         ]_vars

\* a full history of capacity 2 whose creation sample has been dropped
C6_Witness ==
    /\ sololen = 2
    /\ solocalls = 3
    /\ Len(solo.hist) = 2
    /\ solo.hist[2][1] = solocall.t
    /\ solo.hist[1][4] # start(solokalman, solo.hist[1][2]).P

\* C7: with cutoff 0.2 and timeout 2 on a fresh tracker, update(0, [car A])
\* returns ids [0] and nothing evicted; update(1, [car B]) then returns
\* ids [0] and nothing evicted; update(4, []) then returns no ids and
\* evicts exactly track 0, whose history holds both samples when the
\* capacity allows, leaving the registry empty.
C7_EndToEndScenario ==
    (cutoff = Rat(1, 5) /\ timeout = 2) =>
        /\ scen = 1 => /\ UpdateReturned
                       /\ call.match = <<0>>
                       /\ DOMAIN call.done = {}
                       /\ DOMAIN tracks = {0}
        /\ scen = 2 => /\ UpdateReturned
                       /\ call.match = <<0>>
                       /\ DOMAIN call.done = {}
                       /\ DOMAIN tracks = {0}
                       /\ nextid = 1
        /\ scen = 3 => /\ UpdateReturned
                       /\ call.match = <<>>
                       /\ DOMAIN call.done = {0}
                       /\ Len(call.done[0].hist) = Min(2, length)
                       /\ call.done[0].t = 1
                       /\ tracks = NoTracks

\* the scenario has run to its end on a tracker that keeps both samples
C7_Witness ==
    /\ scen = 3
    /\ length = 2
    /\ call.t = 4
    /\ Len(call.done[0].hist) = 2

\* C8: a Track.update whose gain solve fails leaves the Track as it was:
\* timestamp, x, P and history unchanged.
C8_FailedSolveLeavesTrack ==
    [][(SoloUpdates /\ solocall'.err = "LinAlgError") => solo' = solo]_vars

\* C9: a BoxTracker.update that fails leaves the registry and the
\* next-identifier counter exactly as they were before the call.
C9_FailedUpdateLeavesRegistry ==
    [][(calls' = calls + 1 /\ call'.op = "update" /\ call'.err # "none")
          => (tracks' = tracks /\ nextid' = nextid)]_vars

\* C10: pop(i) of a present id removes that track and returns it, leaving
\* the other tracks and nextid unchanged; pop(i) of an absent id fails
\* with KeyError and leaves the registry and nextid unchanged.
C10_PopRemovesOrFails ==
    [][(calls' = calls + 1 /\ call'.op = "pop") =>
        /\ nextid' = nextid
        /\ IF call'.i \in DOMAIN tracks
           THEN /\ call'.err = "none"
                /\ call'.popped = <<tracks[call'.i]>>
                /\ DOMAIN tracks' = DOMAIN tracks \ {call'.i}
                /\ \A j \in DOMAIN tracks' : tracks'[j] = tracks[j]
           ELSE /\ call'.err = "KeyError"
                /\ call'.popped = <<>>
                /\ tracks' = tracks
    ]_vars

\* pop of an id that had been assigned and has left the registry
C10_Witness ==
    /\ call.op = "pop"
    /\ call.err = "KeyError"
    /\ \E a \in Current : issued[a] = call.i

\* two boxes with no common interior
Disjoint(box1, box2) ==
    box_area(RMaximum(box1[1], box2[1]), RMaximum(box1[2], box2[2]),
             RMinimum(box1[3], box2[3]), RMinimum(box1[4], box2[4])) = I(0)
\* a cost c with 0 <= c <= 1
InUnit(c) == ~IsNaN(c) /\ ~RLt(c, I(0)) /\ ~RLt(I(1), c)

\* C11: for every pair of boxes, zero-area and inverted ones included,
\* box_overlap returns a cost in [0, 1]; two identical boxes give cost 0
\* and two disjoint boxes give cost 1.
C11_CostInUnitInterval ==
    (fdone /\ fin.fn = "overlap") =>
        /\ InUnit(fout.cost)
        /\ fin.box1 = fin.box2 => fout.cost = I(0)
        /\ Disjoint(fin.box1, fin.box2) => fout.cost = I(1)

\* C14: predict over dt1 and then dt2 equals predict over dt1 + dt2, for
\* every x, P and integer dt1, dt2; predict with dt = 0 returns (x, P).
C14_PredictComposes ==
    (fdone /\ fin.fn = "predict") =>
        /\ fout.two = fout.one
        /\ fout.zero.x = fin.x
        /\ fout.zero.P = fin.P

\* two non-zero steps that do not cancel, moving x and changing P
C14_Witness ==
    /\ fdone
    /\ fin.fn = "predict"
    /\ fin.dt1 # 0 /\ fin.dt2 # 0 /\ fin.dt1 + fin.dt2 # 0
    /\ fin.dt1 # fin.dt2
    /\ fout.one.x # fin.x
    /\ fout.one.P # fin.P
    /\ fin.P[1][1][2] # fin.P[1][2][1]

\* this step is a call of update
UpdateCalled == calls' = calls + 1 /\ call'.op = "update"

C13_TimestampsMonotone ==
    /\ [](mono =>
            \A i \in DOMAIN tracks :
                /\ tracks[i].t <= clock
                /\ \A a, b \in DOMAIN tracks[i].hist :
                       a < b => tracks[i].hist[a][1] <= tracks[i].hist[b][1]
                /\ \A a \in DOMAIN tracks[i].hist :
                       tracks[i].hist[a][1] <= tracks[i].t)
    /\ [][(mono' /\ calls' = calls + 1 /\ call'.op \in {"add", "update"}) =>
            /\ \A i \in DOMAIN tracks \cap DOMAIN tracks' :
                   tracks[i].t <= tracks'[i].t
            /\ \A i \in DOMAIN tracks \cap DOMAIN call'.done :
                   tracks[i].t <= call'.done[i].t
         ]_vars

\* a track updated at a later time than it was created, then left behind
\* by a still later call
C13_Witness ==
    /\ mono
    /\ UpdateReturned
    /\ \E i \in DOMAIN tracks :
           /\ Len(tracks[i].hist) = 2
           /\ tracks[i].hist[1][1] < tracks[i].hist[2][1]
           /\ tracks[i].t < clock

\* the candidates sharing neither detection nor track with final[1..p-1]
Remaining(p) ==
    SelectSeq(call.errs, LAMBDA c :
        \A q \in 1..(p - 1) :
            c[1] # call.final[q][1] /\ c[2] # call.final[q][2])

\* C15: the candidates are listed by detection index, then by track in
\* iteration order; the p-th committed pair is the remaining candidate of
\* least cost, the first such in candidate order when several tie, so the
\* committed costs are non-decreasing in commit order.
C15_GreedyMinimumFirst ==
    UpdateReturned =>
        /\ \A a, b \in DOMAIN call.errs :
               a < b => \/ call.errs[a][1] < call.errs[b][1]
                        \/ /\ call.errs[a][1] = call.errs[b][1]
                           /\ call.errs[a][2] < call.errs[b][2]
        /\ \A p \in DOMAIN call.final :
               \E rem \in {Remaining(p)} :
                   \E a \in DOMAIN rem :
                       /\ rem[a] = call.final[p]
                       /\ \A b \in DOMAIN rem : ~RLt(rem[b][3], rem[a][3])
                       /\ \A b \in 1..(a - 1) : RLt(rem[a][3], rem[b][3])
        /\ \A p, q \in DOMAIN call.final :
               p < q => ~RLt(call.final[q][3], call.final[p][3])

\* two candidates of equal least cost: the earlier in candidate order wins
C15_Witness ==
    /\ UpdateReturned
    /\ Len(call.errs) >= 2
    /\ call.errs[1][3] = call.errs[2][3]
    /\ call.final[1] = call.errs[1]
    /\ \A c \in {call.errs[a] : a \in DOMAIN call.errs} :
           ~RLt(c[3], call.errs[1][3])

\* C16: a same-label pair is a candidate exactly when its cost is strictly
\* below cutoff, and only candidates are matched: a pair whose cost equals
\* or exceeds cutoff is never matched.
C16_MatchesBelowCutoff ==
    [][UpdateReturns =>
        \E locs \in {Locs(kalman_args, tracks, call'.t)} :
            /\ \A k \in 0..(Len(call'.boxes) - 1), i \in DOMAIN tracks :
                   SameLabel(call'.boxes, tracks, k, i) =>
                       \E e \in {box_overlap(Box(call'.boxes, k).c,
                                             SubSeq(locs[i].x, 1, 4))} :
                           (\E a \in DOMAIN call'.errs : call'.errs[a] = <<k, i, e>>)
                               <=> RLt(e, cutoff)
            /\ \A a \in DOMAIN call'.errs :
                   /\ call'.errs[a][2] \in DOMAIN tracks
                   /\ RLt(call'.errs[a][3], cutoff)
            /\ \A p \in DOMAIN call'.final :
                   /\ \E a \in DOMAIN call'.errs : call'.errs[a] = call'.final[p]
                   /\ RLt(call'.final[p][3], cutoff)
    ]_vars

\* a detection whose cost to the only track equals cutoff got a new track
C16_Witness ==
    /\ UpdateReturned
    /\ call.boxes = <<Det("car", BoxC)>>
    /\ call.errs = <<>>
    /\ \E i \in DOMAIN tracks :
           /\ i # call.match[1]
           /\ tracks[i].l = "car"
           /\ tracks[i].x = start(kalman_args, BoxA).x
           /\ box_overlap(BoxC, SubSeq(tracks[i].x, 1, 4)) = cutoff

\* the ids of the tracks matched in the update this step makes
MatchedNow == {call'.final[p][2] : p \in DOMAIN call'.final}

\* C17: eviction is decided after matching and creation: a track already
\* stale when update(t, boxes) is called is kept with timestamp t if a
\* detection is matched to it and is evicted otherwise, and a track
\* created by the call is not evicted by it.
C17_EvictionAfterMatching ==
    [][(UpdateReturns /\ timeout >= 0) =>
        /\ \A i \in DOMAIN tracks :
               call'.t > tracks[i].t + timeout =>
                   IF i \in MatchedNow
                   THEN /\ i \in DOMAIN tracks'
                        /\ i \notin DOMAIN call'.done
                        /\ tracks'[i].t = call'.t
                   ELSE /\ i \in DOMAIN call'.done
                        /\ i \notin DOMAIN tracks'
        /\ \A k \in DOMAIN call'.match :
               call'.match[k] \notin DOMAIN tracks =>
                   /\ call'.match[k] \in DOMAIN tracks'
                   /\ call'.match[k] \notin DOMAIN call'.done
    ]_vars

\* a track matched in a call made after it had timed out, and kept
C17_Witness ==
    /\ UpdateReturned
    /\ length = 2
    /\ \E p \in DOMAIN call.final :
           /\ call.final[p][2] \in DOMAIN tracks
           /\ LET trk == tracks[call.final[p][2]]
              IN  /\ Len(trk.hist) = 2
                  /\ trk.hist[2][1] = call.t
                  /\ call.t > trk.hist[1][1] + timeout

\* C18: after update(t, boxes) returns, every track that was in the
\* registry before the call and was not matched in it is exactly as before
\* (timestamp, x, P, history), in the registry or in the evicted mapping:
\* the predictions made for it are not kept.
C18_UnmatchedUntouched ==
    [][UpdateReturns =>
        \A i \in DOMAIN tracks \ MatchedNow :
            IF i \in DOMAIN tracks'
            THEN tracks'[i] = tracks[i] /\ i \notin DOMAIN call'.done
            ELSE i \in DOMAIN call'.done /\ call'.done[i] = tracks[i]
    ]_vars

\* an unmatched, moving track whose prediction for the call's time differs
\* from what it stores
C18_Witness ==
    /\ UpdateReturned
    /\ \E i \in DOMAIN tracks :
           /\ \A p \in DOMAIN call.final : call.final[p][2] # i
           /\ tracks[i].t < call.t
           /\ TrackPredict(kalman_args, tracks[i], call.t).x # tracks[i].x

\* C19: the association is maximal: when update returns, every candidate
\* pair has its detection or its track among the committed matches, so a
\* detection got a new track only if each of its candidate tracks was
\* matched to another detection.
C19_AssociationMaximal ==
    UpdateReturned =>
        /\ \A a \in DOMAIN call.errs :
               \E p \in DOMAIN call.final :
                   \/ call.final[p][1] = call.errs[a][1]
                   \/ call.final[p][2] = call.errs[a][2]
        /\ \A a \in DOMAIN call.errs :
               (\A p \in DOMAIN call.final : call.final[p][1] # call.errs[a][1])
                   => \E p \in DOMAIN call.final :
                          /\ call.final[p][2] = call.errs[a][2]
                          /\ call.final[p][1] # call.errs[a][1]

\* two detections and two tracks, every pair a candidate, both matched
C19_Witness ==
    /\ UpdateReturned
    /\ Len(call.errs) = 4
    /\ Len(call.final) = 2

\* C20: with timeout >= 0, every id update returns is a key of the
\* registry when the call returns, of a track stamped t that carries the
\* detection's label; and every key of the registry is below nextid.
C20_ReturnedIdsLive ==
    timeout >= 0 =>
        /\ \A i \in DOMAIN tracks : i < nextid
        /\ UpdateReturned =>
               \A k \in DOMAIN call.match :
                   /\ call.match[k] \in DOMAIN tracks
                   /\ call.match[k] \notin DOMAIN call.done
                   /\ tracks[call.match[k]].t = call.t
                   /\ tracks[call.match[k]].l = call.boxes[k].l

\* a call that evicted a track and returned the id of one it created
C20_Witness ==
    /\ UpdateReturned
    /\ DOMAIN call.done # {}
    /\ call.match # <<>>
    /\ \A i \in DOMAIN call.done : i < call.match[1]
    /\ nextid = call.match[Len(call.match)] + 1

====
